---- MODULE Spec2Model ----
(***************************************************************************)
(* micro-http-router: a Router that registers (path, method, handler,      *)
(* before) bindings in a prefix tree of path segments and dispatches       *)
(* requests to them (src/src/router.js).                                   *)
(*                                                                         *)
(* A path is a sequence of segments: "/a/five" is <<"a", "five">>.         *)
(* The prefix tree itself (radixRouter.lookup / radixRouter.insert) is not *)
(* part of src/; it is modelled from the PathTree section of the           *)
(* specification.                                                          *)
(*                                                                         *)
(* Spec is the router with two sibling patterns, every kind of registration *)
(* call and callables of every behaviour. TreeSpec has patterns of every   *)
(* kind of segment and the strict option, CaseSpec method names in lower   *)
(* and mixed case, ConcSpec several requests in flight at once.            *)
(***************************************************************************)
EXTENDS Naturals, Sequences, FiniteSets, TLC

VARIABLES
    debug,      \* this.debug                       (router.js:33)
    strict,     \* options.strict, handed to the prefix tree (router.js:31)
    nodes,      \* PathTree: the set of tree nodes, each named by its key path
    paramName,  \* PathTree: parameter child node -> the parameter's name
    routes,     \* PathTree: node -> the Route record {path, methods} stored there
    registered, \* history: the (pattern, METHOD) pairs some call of route() that returned has registered
    req,        \* the handle() execution in progress (router.js:147-175)
    parked      \* handle() executions suspended at their await while another one runs

tableVars == <<nodes, paramName, routes>>
vars == <<debug, strict, nodes, paramName, routes, registered, req, parked>>

----------------------------------------------------------------------------
(* Values *)

Missing     == "missing"       \* an argument that is undefined (falsy)
NotCallable == "notCallable"   \* a truthy value that is not a function
Undefined   == "undefined"     \* req.method of a request without a method
NoPath      == <<>>            \* options.path that is undefined or ''

Handlers    == {"h1", "h2"}    \* handler callables
Hooks       == {"b1"}          \* before callables
RegMethods  == {"GET", "post"} \* method names as given to route()
ReqMethods  == {"GET", "POST", Undefined}

ParamSegs   == {":id"}         \* pattern segments that name a parameter
WildSeg     == "*"             \* the pattern segment that is the wildcard
ParamKey    == "<param>"       \* tree key of a node's parameter child
WildKey     == "<wild>"        \* tree key of a node's wildcard child

Patterns    == {<<"a", ":id">>, <<"a", "five">>}

\* Longest request path, in segments.
MaxPathLen  == 2
ConcreteSegs == {"a", "five"}
RECURSIVE SeqsUpTo(_, _)
SeqsUpTo(S, n) ==
    IF n = 0 THEN {<<>>}
    ELSE LET shorter == SeqsUpTo(S, n - 1)
         IN  shorter \cup {Append(p, s) : p \in {q \in shorter : Len(q) = n - 1}, s \in S}
ReqPaths == SeqsUpTo(ConcreteSegs, MaxPathLen) \ {<<>>}

----------------------------------------------------------------------------
(* PathTree, from the specification, sections 3 and 4.1 *)

\* The kind of a pattern segment decides the child it creates or reuses.
SegKey(seg) ==
    IF seg \in ParamSegs THEN ParamKey
    ELSE IF seg = WildSeg THEN WildKey
    ELSE seg

RECURSIVE KeyPath(_)
KeyPath(pattern) ==
    IF pattern = <<>> THEN <<>>
    ELSE <<SegKey(Head(pattern))>> \o KeyPath(Tail(pattern))

Prefixes(s) == {SubSeq(s, 1, n) : n \in 0..Len(s)}

\* A trailing slash is a last, empty segment: "/a/" is <<"a", "">>. Unless the
\* tree was made strict, insert and lookup ignore it.
Slash      == ""
\* A faulty TreeStrict: the option is not handed to the tree.
TreeStrictDropped == FALSE
TreeStrict == strict   \* new RadixRouter({ strict: options && options.strict })
Trim(path) ==
    IF ~TreeStrict /\ path # <<>> /\ path[Len(path)] = Slash
    THEN SubSeq(path, 1, Len(path) - 1)
    ELSE path

\* MatchResult: NotFound, or Found(route, params, remaining wildcard segments).
NotFound == [found |-> FALSE, node |-> <<>>, params |-> {}, wild |-> <<>>]
Found(node, params, wild) == [found |-> TRUE, node |-> node, params |-> params, wild |-> wild]

\* A lookup that is not the tree's: a search that, where a branch dead-ends,
\* goes back and tries the parameter child and then the wildcard child.
RECURSIVE Search(_, _, _, _, _)
Search(ns, pn, rs, node, st) ==
    LET segs == st.segs IN
    IF segs = <<>>
    THEN IF node \in DOMAIN rs
         THEN Found(node, st.params, <<>>)
         ELSE NotFound
    ELSE LET s == Head(segs)
             viaStatic ==
                 IF s \notin {ParamKey, WildKey} /\ Append(node, s) \in ns
                 THEN Search(ns, pn, rs, Append(node, s), [segs |-> Tail(segs), params |-> st.params])
                 ELSE NotFound
             viaParam ==
                 IF Append(node, ParamKey) \in ns
                 THEN Search(ns, pn, rs, Append(node, ParamKey),
                             [segs   |-> Tail(segs),
                              params |-> {b \in st.params : b[1] # pn[Append(node, ParamKey)]}
                                         \cup {<<pn[Append(node, ParamKey)], s>>}])
                 ELSE NotFound
             viaWild ==
                 IF Append(node, WildKey) \in DOMAIN rs
                 THEN Found(Append(node, WildKey), st.params, segs)
                 ELSE NotFound
         IN  IF viaStatic.found THEN viaStatic
             ELSE IF viaParam.found THEN viaParam
             ELSE viaWild

\* lookup: greedy descent, static child first, then the parameter child (binds
\* the segment), then the wildcard child (takes all the remaining segments, at
\* least one); a branch that dead-ends is NotFound, no sibling is retried.
RECURSIVE Walk(_, _, _, _, _)
Walk(ns, pn, rs, node, st) ==
    LET segs == st.segs IN
    IF segs = <<>>
    THEN IF node \in DOMAIN rs
         THEN Found(node, st.params, <<>>)
         ELSE NotFound
    ELSE LET s == Head(segs) IN
         IF s \notin {ParamKey, WildKey} /\ Append(node, s) \in ns
         THEN Walk(ns, pn, rs, Append(node, s), [segs |-> Tail(segs), params |-> st.params])
         ELSE IF Append(node, ParamKey) \in ns
         THEN Walk(ns, pn, rs, Append(node, ParamKey),
                   [segs   |-> Tail(segs),
                    params |-> {b \in st.params : b[1] # pn[Append(node, ParamKey)]}
                               \cup {<<pn[Append(node, ParamKey)], s>>}])
         ELSE IF Append(node, WildKey) \in DOMAIN rs
         THEN Found(Append(node, WildKey), st.params, segs)
         ELSE NotFound

LookupIn(ns, pn, rs, path) == Walk(ns, pn, rs, <<>>, [segs |-> path, params |-> {}])

lookup(path) == LookupIn(nodes, paramName, routes, Trim(path))

\* insert: one child per segment, created if absent; a parameter child keeps
\* the latest parameter name; the terminal node gets the Route unless it has one.
InsertNodes(ns, pattern) == ns \cup Prefixes(KeyPath(pattern))

ParamNameOf(seg) == CASE seg = ":id" -> "id"

InsertParamNames(pn, pattern) ==
    LET named == {n \in 1..Len(pattern) : pattern[n] \in ParamSegs}
        new   == {SubSeq(KeyPath(pattern), 1, n) : n \in named}
    IN  [k \in DOMAIN pn \cup new |->
            IF k \in new THEN ParamNameOf(pattern[Len(k)]) ELSE pn[k]]

InsertRoute(rs, route) ==
    LET k == KeyPath(Trim(route.path))
    IN  IF k \in DOMAIN rs THEN rs ELSE (k :> route) @@ rs

----------------------------------------------------------------------------
(* Registration: Router.route and the verb helpers *)

NoMethods == <<>>   \* new Map()

\* A faulty toUpperCase: the method name is stored as it was given.
toUpperCaseDropped(m) == m

toUpperCase(m) ==
    CASE m = "get"  -> "GET"
      [] m = "Get"  -> "GET"
      [] m = "post" -> "POST"
      [] m = "Post" -> "POST"
      [] OTHER      -> m

\* routeOptionsHelper: with two functions the first is the before hook.
routeOptionsHelper(path, method, fn1, fn2) ==
    IF fn2 # Missing
    THEN [path |-> path, method |-> method, before |-> fn1, handler |-> fn2]
    ELSE [path |-> path, method |-> method, before |-> Missing, handler |-> fn1]

\* The four asserts at the top of route().
OptionsValid(o) == o.path # NoPath /\ o.method # Missing /\ o.handler # Missing

\* The node whose Route record route() goes on to change: the one lookup
\* returned for the text of options.path, or the one inserted for it.
RouteTarget(o) ==
    LET found == lookup(o.path)
    IN  IF found = NotFound THEN KeyPath(Trim(o.path)) ELSE found.node

\* A faulty SetMethod: the binding is put in a fresh map, the others are lost.
SetMethodAlone(rs, node, o) ==
    IF node \in DOMAIN rs
    THEN [rs EXCEPT ![node].methods =
             (toUpperCase(o.method) :> [handler |-> o.handler, before |-> Missing])]
    ELSE rs

\* route.methods.set(METHOD, {handler, before: undefined})
SetMethod(rs, node, o) ==
    IF node \in DOMAIN rs
    THEN [rs EXCEPT ![node].methods =
             (toUpperCase(o.method) :> [handler |-> o.handler, before |-> Missing]) @@ @]
    ELSE rs

\* method.before = options.before (the binding object is the one just stored)
SetBefore(rs, node, o) ==
    IF node \in DOMAIN rs
    THEN [rs EXCEPT ![node].methods[toUpperCase(o.method)].before = o.before]
    ELSE rs

\* The whole of route(options), up to its return or the assertion that ends it.
route(o) ==
    IF ~OptionsValid(o)
    THEN UNCHANGED <<nodes, paramName, routes, registered>>
    ELSE LET found    == lookup(o.path)
             target   == RouteTarget(o)
             inserted == IF found = NotFound
                         THEN InsertRoute(routes, [path |-> o.path, methods |-> NoMethods])
                         ELSE routes
             bound    == SetMethod(inserted, target, o)
         IN  /\ nodes' = IF found = NotFound THEN InsertNodes(nodes, Trim(o.path)) ELSE nodes
             /\ paramName' = IF found = NotFound
                             THEN InsertParamNames(paramName, Trim(o.path))
                             ELSE paramName
             /\ routes' = IF o.before \in {Missing, NotCallable}
                           THEN bound
                           ELSE SetBefore(bound, target, o)
             /\ registered' = IF o.before = NotCallable
                               THEN registered
                               ELSE registered \cup {<<o.path, toUpperCase(o.method)>>}

RouteOptions ==
    [path    : Patterns \cup {NoPath},
     method  : RegMethods \cup {Missing},
     handler : Handlers \cup {Missing},
     before  : Hooks \cup {Missing, NotCallable}]

\* A call of route() ends by the assertion error of a failed assert, or returns.
Raises(o)  == ~OptionsValid(o) \/ o.before = NotCallable
Returns(o) == ~Raises(o)

\* route() is synchronous: it runs between two steps of a handle execution.
\* A finished execution (pc = "done") is only the record of how it ended, kept
\* until HandleEnd; the next call comes after it.
RouteCall(o) ==
    /\ req.pc # "done"
    /\ route(o)
    /\ UNCHANGED <<debug, strict, req, parked>>

Route == \E o \in RouteOptions : RouteCall(o)

\* The (fn1, fn2) argument pairs of a verb helper: a handler alone, a before
\* hook and a handler, or nothing.
VerbFunctions ==
    (Handlers \X {Missing}) \cup (Hooks \X Handlers) \cup {<<Missing, Missing>>}

\* get, post, ...: route(routeOptionsHelper(path, VERB, fn1, fn2)); the helper
\* asserts fn1 before anything else.
Verb ==
    \E path \in Patterns, verb \in {"GET", "POST"}, fns \in VerbFunctions :
        /\ req.pc # "done"
        /\ IF fns[1] = Missing
           THEN UNCHANGED <<nodes, paramName, routes, registered>>
           ELSE route(routeOptionsHelper(path, verb, fns[1], fns[2]))
        /\ UNCHANGED <<debug, strict, req, parked>>

----------------------------------------------------------------------------
(* Dispatch: Router.handle *)

InternalError == 500   \* send(res, 500, data)
RouteNotFound == 404   \* createError(404, 'Route not found')

\* What a before hook or a handler does when it is called: it returns, it
\* throws, or it returns a promise that settles later. What is thrown or
\* rejected is an Error object or null/undefined.
Behaviours == {"returns", "throwsError", "throwsNullish", "async"}
Failures   == {"Error", "nullish"}
Thrown(b)  == IF b = "throwsError" THEN "Error" ELSE "nullish"

NoBinding == [handler |-> Missing, before |-> Missing]   \* route.methods.get() gave undefined

\* Query strings of request urls, and new URL(req.url, ...).searchParams.
NoQuery == ""
Queries == {NoQuery, "?x=1"}
searchParamsOf(q) ==
    CASE q = NoQuery -> {}
      [] q = "?x=1" -> {<<"x", "1">>}

\* The request object (method, url as path and query, params, searchParams)
\* with the position and the record of the handle() execution it is given to.
\* searchParams, hookSaw and handlerSaw are <<>> while unset: hookSaw and
\* handlerSaw get the request context each call of the callable was given.
IdleReq ==
    [pc |-> "idle", method |-> "", path |-> <<>>, query |-> NoQuery,
     found |-> FALSE, params |-> {}, searchParams |-> <<>>, binding |-> NoBinding,
     hook |-> "notRun", handler |-> "notRun", hookSaw |-> <<>>, handlerSaw |-> <<>>,
     outcome |-> "none", status |-> 0, body |-> <<>>]

\* A faulty SetParams: the parameters of the match are not copied to req.
SetParamsDropped(r, match) == r

\* if (route.params) req.params = route.params
SetParams(r, match) ==
    IF match.params # {} THEN [r EXCEPT !.params = match.params] ELSE r

\* A faulty SetSearchParams: the query parameters are not put on req.
SetSearchParamsDropped(r) == r

\* req.searchParams = reqURL.searchParams
SetSearchParams(r) == [r EXCEPT !.searchParams = <<searchParamsOf(r.query)>>]

\* What a callable that is handed req can read from it.
Context(r) == [params |-> r.params, searchParams |-> r.searchParams]

ErrName(e)    == IF e = "TypeError" THEN "TypeError" ELSE "Error"
ErrMessage(e) == IF e = "TypeError" THEN "reading 'before' of undefined" ELSE "boom"

\* The catch block: data is `${e.name}: ${e.message}\n${e.stack}` under debug,
\* else null; reading e.name of null/undefined throws a TypeError out of the
\* block, before send is reached.
Catch(r, e) ==
    IF debug /\ e = "nullish"
    THEN [r EXCEPT !.pc = "done", !.outcome = "threwTypeError"]
    ELSE [r EXCEPT !.pc = "done", !.outcome = "sent", !.status = InternalError,
                   !.body = IF debug THEN <<ErrName(e), ErrMessage(e), "stack">> ELSE <<>>]

\* methodObj.handler(req, res), and the await of what it returned.
CallHandler(r, hb) ==
    LET c == [r EXCEPT !.handlerSaw = Append(@, Context(r))] IN
    CASE hb = "returns" -> [c EXCEPT !.pc = "done", !.handler = "returned", !.outcome = "returned"]
      [] hb = "async"   -> [c EXCEPT !.pc = "awaiting", !.handler = "pending"]
      [] OTHER          -> Catch([c EXCEPT !.handler = "threw"], Thrown(hb))

\* if (methodObj.before) methodObj.before(req, res): what it returns is dropped.
CallBefore(r, bb, hb) ==
    LET c == [r EXCEPT !.hookSaw = Append(@, Context(r))] IN
    CASE bb = "returns" -> CallHandler([c EXCEPT !.hook = "returned"], hb)
      [] bb = "async"   -> CallHandler([c EXCEPT !.hook = "pending"], hb)
      [] OTHER          -> Catch([c EXCEPT !.hook = "threw"], Thrown(bb))

\* handle(req, res) up to its first suspension or its end.
handle(m, p, q, bb, hb) ==
    LET match == lookup(p)
        r0    == [IdleReq EXCEPT !.method = m, !.path = p, !.query = q]
    IN  IF ~match.found \/ m = Undefined
        THEN [r0 EXCEPT !.pc = "done", !.found = match.found,
                        !.outcome = "threwNotFound", !.status = RouteNotFound]
        ELSE LET methods == routes[match.node].methods
                 r1      == SetSearchParams(SetParams([r0 EXCEPT !.found = TRUE], match))
             IN  IF m \notin DOMAIN methods
                 THEN Catch(r1, "TypeError")
                 ELSE LET r2 == [r1 EXCEPT !.binding = methods[m]]
                      IN  IF methods[m].before # Missing
                          THEN CallBefore(r2, bb, hb)
                          ELSE CallHandler(r2, hb)

\* A faulty Begin: the parameters of the match are one object that every
\* request matched so far holds, so a new match rewrites what the suspended
\* executions read as their req.params.
BeginSharingParams(methods, paths, queries, behaviours) ==
    \E m \in methods, p \in paths, q \in queries, bb \in behaviours, hb \in behaviours :
        /\ req.pc = "idle"
        /\ req' = handle(m, p, q, bb, hb)
        /\ parked' = [i \in DOMAIN parked |->
                          IF lookup(p).found
                          THEN [parked[i] EXCEPT !.params = lookup(p).params]
                          ELSE parked[i]]
        /\ UNCHANGED <<debug, strict, nodes, paramName, routes, registered>>

\* A call of handle() with a request drawn from the given methods, paths and
\* query strings, and callables that behave in one of the given ways.
Begin(methods, paths, queries, behaviours) ==
    \E m \in methods, p \in paths, q \in queries, bb \in behaviours, hb \in behaviours :
        /\ req.pc = "idle"
        /\ req' = handle(m, p, q, bb, hb)
        /\ UNCHANGED <<debug, strict, nodes, paramName, routes, registered, parked>>

HandleBegin == Begin(ReqMethods, ReqPaths, {NoQuery}, Behaviours)

\* The promise the handler returned settles: handle resumes after its await.
HandlerResolves ==
    /\ req.pc = "awaiting"
    /\ req' = [req EXCEPT !.pc = "done", !.handler = "resolved", !.outcome = "returned"]
    /\ UNCHANGED <<debug, strict, nodes, paramName, routes, registered, parked>>

HandlerRejects ==
    \E e \in Failures :
        /\ req.pc = "awaiting"
        /\ req' = Catch([req EXCEPT !.handler = "rejected"], e)
        /\ UNCHANGED <<debug, strict, nodes, paramName, routes, registered, parked>>

\* The promise the before hook returned settles; nothing in handle waits for it.
HookResolves ==
    /\ req.hook = "pending"
    /\ req' = [req EXCEPT !.hook = "resolved"]
    /\ UNCHANGED <<debug, strict, nodes, paramName, routes, registered, parked>>

HookRejects ==
    /\ req.hook = "pending"
    /\ req' = [req EXCEPT !.hook = "rejected"]
    /\ UNCHANGED <<debug, strict, nodes, paramName, routes, registered, parked>>

\* The execution is over; the next request can come.
HandleEnd ==
    /\ req.pc = "done"
    /\ req' = IdleReq
    /\ UNCHANGED <<debug, strict, nodes, paramName, routes, registered, parked>>

----------------------------------------------------------------------------
Init ==
    /\ debug \in BOOLEAN
    /\ strict = FALSE
    /\ parked = <<>>
    /\ nodes = {<<>>}
    /\ paramName = <<>>
    /\ routes = <<>>
    /\ registered = {}
    /\ req = IdleReq

Next ==
    \/ Route
    \/ Verb
    \/ HandleBegin
    \/ HandlerResolves
    \/ HandlerRejects
    \/ HookResolves
    \/ HookRejects
    \/ HandleEnd

Spec == Init /\ [][Next]_vars

----------------------------------------------------------------------------
(* The same router with patterns of every kind of segment: a parameter at    *)
(* the root, static patterns with and without a trailing slash, wildcards.   *)
(* Handlers return at once and no before hook is bound.                      *)

TreePatterns ==
    {<<":id">>, <<"a">>, <<"a", Slash>>, <<"a", WildSeg>>, <<WildSeg>>}

\* Request paths, each with and without a trailing slash.
TreeReqPaths == ReqPaths \cup {Append(p, Slash) : p \in ReqPaths}

\* router.get(path, h1) and router.post(path, h2)
TreeOptions ==
    {routeOptionsHelper(path, "GET", "h1", Missing) : path \in TreePatterns}
        \cup {routeOptionsHelper(path, "POST", "h2", Missing) : path \in TreePatterns}

\* The handler the options above give for a method.
TreeHandlerOf(m) == (CHOOSE o \in TreeOptions : o.method = m).handler

TreeRoute == \E o \in TreeOptions : RouteCall(o)

TreeHandle == Begin({"GET", "POST"}, TreeReqPaths, {NoQuery}, {"returns"})

TreeInit ==
    /\ debug = FALSE
    /\ strict \in BOOLEAN
    /\ parked = <<>>
    /\ nodes = {<<>>}
    /\ paramName = <<>>
    /\ routes = <<>>
    /\ registered = {}
    /\ req = IdleReq

TreeNext ==
    \/ TreeRoute
    \/ TreeHandle
    \/ HandleEnd

TreeSpec == TreeInit /\ [][TreeNext]_vars

----------------------------------------------------------------------------
(* The same router with every route registered by route() under a method     *)
(* name that is not in upper case, and requests whose method is.             *)

MixedCaseMethods == {"get", "Get", "post", "Post"}
UpperCaseMethods == {"GET", "POST"}

CaseOptions ==
    [path    : Patterns,
     method  : MixedCaseMethods,
     handler : Handlers,
     before  : {Missing}]

CaseRoute == \E o \in CaseOptions : RouteCall(o)

CaseHandle == Begin(UpperCaseMethods, ReqPaths, {NoQuery}, {"returns"})

CaseInit ==
    /\ debug = FALSE
    /\ strict = FALSE
    /\ parked = <<>>
    /\ nodes = {<<>>}
    /\ paramName = <<>>
    /\ routes = <<>>
    /\ registered = {}
    /\ req = IdleReq

CaseNext ==
    \/ CaseRoute
    \/ CaseHandle
    \/ HandleEnd

CaseSpec == CaseInit /\ [][CaseNext]_vars

----------------------------------------------------------------------------
(* The same router serving several requests at once: while one execution of  *)
(* handle is suspended at its await, another request is handled. One         *)
(* parameter route, with or without a before hook; callables of every        *)
(* behaviour; requests with and without a query string.                      *)

\* Most executions suspended at a time, besides the one that runs.
MaxParked == 1

\* The execution that runs reaches its await and another request comes in.
Park ==
    /\ req.pc = "awaiting"
    /\ Len(parked) < MaxParked
    /\ parked' = Append(parked, req)
    /\ req' = IdleReq
    /\ UNCHANGED <<debug, strict, nodes, paramName, routes, registered>>

\* A suspended execution is the one that goes on.
Resume ==
    \E i \in 1..Len(parked) :
        /\ req.pc = "idle"
        /\ req' = parked[i]
        /\ parked' = SubSeq(parked, 1, i - 1) \o SubSeq(parked, i + 1, Len(parked))
        /\ UNCHANGED <<debug, strict, nodes, paramName, routes, registered>>

\* router.get('/a/:id', h1) and router.get('/a/:id', b1, h1)
ConcOptions ==
    {routeOptionsHelper(<<"a", ":id">>, "GET", "h1", Missing),
     routeOptionsHelper(<<"a", ":id">>, "GET", "b1", "h1")}

ConcRoute == \E o \in ConcOptions : RouteCall(o)

ConcHandle == Begin({"GET"}, ReqPaths, Queries, Behaviours)

ConcInit ==
    /\ debug = FALSE
    /\ strict = FALSE
    /\ parked = <<>>
    /\ nodes = {<<>>}
    /\ paramName = <<>>
    /\ routes = <<>>
    /\ registered = {}
    /\ req = IdleReq

ConcNext ==
    \/ ConcRoute
    \/ ConcHandle
    \/ HandlerResolves
    \/ HandlerRejects
    \/ HookResolves
    \/ HookRejects
    \/ HandleEnd
    \/ Park
    \/ Resume

ConcSpec == ConcInit /\ [][ConcNext]_vars

\* The executions of handle in flight: the one that runs and the suspended ones.
InFlight == {req} \cup {parked[i] : i \in 1..Len(parked)}

\* A step of some execution of handle: its start, the settling of a promise
\* it made, its suspension, its resumption, its end.
HandleStep ==
    \/ ConcHandle
    \/ HandlerResolves
    \/ HandlerRejects
    \/ HookResolves
    \/ HookRejects
    \/ HandleEnd
    \/ Park
    \/ Resume

\* The request context handle has to set up for a request, from its own url.
OwnContext(r) ==
    [params       |-> lookup(r.path).params,
     searchParams |-> <<searchParamsOf(r.query)>>]

----------------------------------------------------------------------------
(* What a request would be dispatched to, as handle finds it: the route of   *)
(* lookup(path) and the binding route.methods.get(method) gives.             *)

MethodObjIn(ns, pn, rs, m, p) ==
    LET match == LookupIn(ns, pn, rs, Trim(p))
    IN  IF match.found /\ m \in DOMAIN rs[match.node].methods
        THEN rs[match.node].methods[m]
        ELSE NoBinding

MethodObj(m, p)     == MethodObjIn(nodes, paramName, routes, m, p)
MethodObjNext(m, p) == MethodObjIn(nodes', paramName', routes', m, p)

\* The pattern of the route record a request path is served by ("" for none).
ServingIn(ns, pn, rs, p) ==
    LET match == LookupIn(ns, pn, rs, Trim(p))
    IN  IF match.found THEN rs[match.node].path ELSE NoPath

\* The parameters a pattern gives a path that matches it: each parameter name
\* with the segment of the path at its position.
ParamsOf(pat, path) ==
    {<<ParamNameOf(pat[n]), Trim(path)[n]>> :
        n \in {i \in 1..Len(pat) : pat[i] \in ParamSegs}}
HasParams(pat) == \E n \in 1..Len(pat) : pat[n] \in ParamSegs

\* A wildcard pattern, the prefix it stands under, and what a path has after
\* a prefix.
IsWild(pat)       == pat # <<>> /\ pat[Len(pat)] = WildSeg
Front(pat)        == SubSeq(pat, 1, Len(pat) - 1)
StartsWith(p, pf) == Len(p) >= Len(pf) /\ SubSeq(p, 1, Len(pf)) = pf
After(p, pf)      == SubSeq(p, Len(pf) + 1, Len(p))
\* A static or a parameter child of the node takes the segment before the
\* node's wildcard child is tried.
Shadowed(node, seg) == Append(node, seg) \in nodes \/ Append(node, ParamKey) \in nodes

\* The patterns some call of route() that returned was given.
RegisteredPatterns == {k[1] : k \in registered}

\* Whether some branch of the tree, tried or not, leads the path to a route.
SomeBranchMatches(path) ==
    Search(nodes, paramName, routes, <<>>, [segs |-> Trim(path), params |-> {}]).found

StoredMethods  == {toUpperCase(m) : m \in RegMethods}
IsStatic(pat)  == \A n \in 1..Len(pat) : SegKey(pat[n]) = pat[n]
RegKey(o)      == <<o.path, toUpperCase(o.method)>>
Supplied(o)    == [handler |-> o.handler, before |-> o.before]
\* Two patterns are siblings when they differ in their last segment only.
Siblings(p, q) == /\ Len(p) = Len(q)
                  /\ p # q
                  /\ SubSeq(p, 1, Len(p) - 1) = SubSeq(q, 1, Len(q) - 1)

----------------------------------------------------------------------------
(* Claims *)

\* C1: a request whose path matches a route that has no binding for the
\* request's method ends like a request whose path matches no route: handle
\* throws the 404 'Route not found' error; it sends no 500 and calls no handler.
C1_MethodMissIsRouteNotFound ==
    (req.pc = "done" /\ req.found /\ req.binding = NoBinding)
        => /\ req.outcome = "threwNotFound"
           /\ req.status = RouteNotFound
           /\ req.handler = "notRun"

\* C2: on a route with a before hook, the handler is not called until the hook
\* has completed: no state has the handler started and the hook still pending.
C2_HandlerWaitsForBefore ==
    (req.binding.before # Missing /\ req.handler # "notRun")
        => req.hook # "pending"

\* C3: when the before hook fails, by throwing or by rejecting, the handler of
\* that request is never called and the request ends with a 500 response.
C3_FailedBeforeStopsHandler ==
    (req.hook \in {"threw", "rejected"})
        => /\ req.handler = "notRun"
           /\ req.pc = "done" => (req.outcome = "sent" /\ req.status = InternalError)

\* C4: a registration of (P, M) that returns changes the binding of M on the
\* route of P only: a request that is served by the route of another pattern Q
\* before and after it gets, for every method, the binding it got before.
C4_RegistrationFrame ==
    [][\A o \in RouteOptions :
          (RouteCall(o) /\ Returns(o)) =>
              \A q \in ReqPaths, m \in StoredMethods :
                  LET was == ServingIn(nodes, paramName, routes, q)
                      is  == ServingIn(nodes', paramName', routes', q)
                  IN  (was # NoPath /\ was # o.path /\ is = was)
                          => MethodObjNext(m, q) = MethodObj(m, q)]_vars

\* C5: a request for a registered static pattern with a registered method is
\* dispatched to the handler of the latest registration of that pattern and
\* method. Step by step: a registration that returns makes its own (static
\* pattern, method) dispatch to the handler it supplies, and leaves every other
\* registered (static pattern, method) dispatching to the handler it had.
C5_StaticDispatch ==
    [][\A o \in RouteOptions :
          (RouteCall(o) /\ Returns(o)) =>
              \A k \in registered' :
                  IsStatic(k[1]) =>
                      MethodObjNext(k[2], k[1]).handler =
                          IF k = RegKey(o) THEN o.handler
                          ELSE MethodObj(k[2], k[1]).handler]_vars

\* C6: with a parameter route registered, a request for the literal path of a
\* sibling static pattern registered with the same method is dispatched to the
\* static route and its handler, not to the parameter route. Step by step,
\* after every registration that returns: the request is served by the static
\* pattern's own route, with no parameter bound, and its handler is the one
\* this registration supplied for it, or else the one it had.
C6_StaticBeforeParameter ==
    [][\A o \in RouteOptions :
          (RouteCall(o) /\ Returns(o)) =>
              \A k \in registered' :
                  (/\ IsStatic(k[1])
                   /\ \E j \in registered' :
                          ~IsStatic(j[1]) /\ Siblings(j[1], k[1]) /\ j[2] = k[2])
                      => /\ ServingIn(nodes', paramName', routes', k[1]) = k[1]
                         /\ LookupIn(nodes', paramName', routes', k[1]).params = {}
                         /\ MethodObjNext(k[2], k[1]).handler =
                                IF k = RegKey(o) THEN o.handler
                                ELSE MethodObj(k[2], k[1]).handler]_vars

\* C7: no failure of a before hook or of a handler escapes handle: none is left
\* as the rejection of a promise nobody waits for, and an execution in which
\* one of them failed ends with a response sent.
C7_FailuresBecomeResponses ==
    /\ req.hook # "rejected"
    /\ (req.pc = "done" /\ (req.hook = "threw" \/ req.handler \in {"threw", "rejected"}))
           => req.outcome = "sent"

\* C8: when the handler throws or rejects, handle sends a 500 response whose
\* body holds the failure's message under debug and is empty without debug.
C8_HandlerFaultResponse ==
    (req.pc = "done" /\ req.handler \in {"threw", "rejected"})
        => /\ req.outcome = "sent"
           /\ req.status = InternalError
           /\ IF debug
              THEN \E n \in 1..Len(req.body) : req.body[n] = ErrMessage("Error")
              ELSE req.body = <<>>

\* C9: a call of route() that raises leaves the route table as it was: no
\* route is created, and no binding is added or overwritten.
C9_FailedRegistrationChangesNothing ==
    [][\A o \in RouteOptions :
          (RouteCall(o) /\ Raises(o)) => UNCHANGED tableVars]_vars

\* C10: the binding (handler and before hook) used for a registered (pattern,
\* method) is the one its latest registration supplied. Step by step: a
\* registration that returns makes the binding of its own (pattern, method)
\* the one it supplies, a missing before hook included, and leaves the binding
\* of every other registered (pattern, method) as it was.
C10_LastRegistrationWins ==
    [][\A o \in RouteOptions :
          (RouteCall(o) /\ Returns(o)) =>
              \A k \in registered' :
                  MethodObjNext(k[2], k[1]) =
                      IF k = RegKey(o) THEN Supplied(o)
                      ELSE MethodObj(k[2], k[1])]_vars

\* C11: registering a pattern again, with another method, creates no second
\* route for it: one route record serves both methods. For every static
\* pattern registered with GET and with POST, a GET request for it is
\* dispatched to the handler registered with GET and a POST request to the
\* handler registered with POST.
C11_OneRouteServesBothMethods ==
    \A k1 \in registered, k2 \in registered :
        (k1[1] = k2[1] /\ k1[2] # k2[2] /\ IsStatic(k1[1]))
            => /\ MethodObj(k1[2], k1[1]).handler = TreeHandlerOf(k1[2])
               /\ MethodObj(k2[2], k2[1]).handler = TreeHandlerOf(k2[2])

C13_WildcardMatchesRemainder ==
    \A k \in registered :
        IsWild(k[1]) =>
            \A p \in TreeReqPaths :
                LET match == lookup(p)
                    rest  == After(Trim(p), Front(k[1]))
                IN  /\ (/\ StartsWith(Trim(p), Front(k[1]))
                        /\ rest # <<>>
                        /\ ~Shadowed(KeyPath(Front(k[1])), rest[1]))
                           => /\ match.found
                              /\ routes[match.node].path = k[1]
                              /\ match.wild = rest
                    /\ (match.found /\ routes[match.node].path = k[1])
                           => (StartsWith(Trim(p), Front(k[1])) /\ rest # <<>>)

\* C14: without strict (the default) a path with a trailing slash and the
\* same path without it resolve to the same route, at registration (no tree
\* node is made for the slash) and at dispatch (both lookups give the same
\* match). With strict they are distinct: they are never matched by the same
\* node, unless by a wildcard that captures the one and the other, and while /a alone, or /a/ alone, is registered, a request for the
\* other one matches nothing and ends with the 404.
C14_StrictTrailingSlash ==
    /\ ~strict =>
           /\ \A n \in nodes : \A i \in 1..Len(n) : n[i] # Slash
           /\ \A p \in ReqPaths : lookup(p) = lookup(Append(p, Slash))
    /\ strict =>
           /\ \A p \in ReqPaths :
                  (lookup(p).found /\ lookup(Append(p, Slash)).found)
                      => \/ lookup(p).node # lookup(Append(p, Slash)).node
                         \/ lookup(p).wild # lookup(Append(p, Slash)).wild
           /\ RegisteredPatterns = {<<"a">>}
                  => /\ lookup(<<"a">>).found
                     /\ ~lookup(<<"a", Slash>>).found
                     /\ (req.pc = "done" /\ req.path = <<"a", Slash>>)
                            => (req.outcome = "threwNotFound" /\ req.status = RouteNotFound)
           /\ RegisteredPatterns = {<<"a", Slash>>}
                  => /\ lookup(<<"a", Slash>>).found
                     /\ ~lookup(<<"a">>).found
                     /\ (req.pc = "done" /\ req.path = <<"a">>)
                            => (req.outcome = "threwNotFound" /\ req.status = RouteNotFound)

\* C14: strict, only /a registered, and GET /a/ has ended with the 404.
C14_Witness ==
    /\ strict
    /\ RegisteredPatterns = {<<"a">>}
    /\ req.pc = "done"
    /\ req.method = "GET"
    /\ req.path = <<"a", Slash>>
    /\ req.outcome = "threwNotFound"

\* C15: lookup descends by priority, static child, then parameter child, then
\* wildcard child, and never goes back: the node it finds lies on the branch
\* that the priority picks at every level, so when that branch dead-ends the
\* path matches nothing, whatever a sibling branch would have led to, and
\* handle ends the request with the 404 and calls no handler.
C15_GreedyNoBacktracking ==
    /\ \A p \in TreeReqPaths :
           LET match == lookup(p) IN
           match.found =>
               \A i \in 1..Len(match.node) :
                   LET parent == SubSeq(match.node, 1, i - 1)
                       seg    == Trim(p)[i]
                   IN  /\ match.node[i] = ParamKey => Append(parent, seg) \notin nodes
                       /\ match.node[i] = WildKey =>
                              /\ Append(parent, seg) \notin nodes
                              /\ Append(parent, ParamKey) \notin nodes
    /\ (req.pc = "done" /\ ~lookup(req.path).found)
           => /\ req.outcome = "threwNotFound"
              /\ req.status = RouteNotFound
              /\ req.handler = "notRun"

\* C15: a request has ended with the 404 although a branch that lookup did
\* not try leads its path to a route (/a with /:id and /a/* registered).
C15_Witness ==
    /\ req.pc = "done"
    /\ req.path = <<"a">>
    /\ req.outcome = "threwNotFound"
    /\ ~lookup(req.path).found
    /\ SomeBranchMatches(req.path)

\* C16: in an execution of handle that finds a route, req.params and
\* req.searchParams are set from the request's path and query before the
\* before hook is called and before the handler is called: whatever call of
\* the hook or of the handler there was, it was handed the context of the
\* request, parameters and query parameters in place.
C16_ContextBeforeCallables ==
    /\ \A i \in 1..Len(req.hookSaw) : req.hookSaw[i] = OwnContext(req)
    /\ \A i \in 1..Len(req.handlerSaw) : req.handlerSaw[i] = OwnContext(req)
    /\ (req.hook # "notRun" \/ req.handler # "notRun")
           => /\ req.params = OwnContext(req).params
              /\ req.searchParams = OwnContext(req).searchParams
    /\ req.hook # "notRun" => Len(req.hookSaw) = 1
    /\ req.handler # "notRun" => Len(req.handlerSaw) = 1

\* C16: GET /a/five?x=1 on a route with a before hook: the hook and then the
\* handler were called, each with id = "five" and x = "1" on the request.
C16_Witness ==
    /\ req.path = <<"a", "five">>
    /\ req.query = "?x=1"
    /\ req.hook = "returned"
    /\ req.handler = "returned"
    /\ req.hookSaw = <<[params |-> {<<"id", "five">>}, searchParams |-> <<{<<"x", "1">>}>>]>>
    /\ req.handlerSaw = req.hookSaw

\* C17: route() stores the binding under the method name in upper case: with
\* every route registered under a name in lower or mixed case, the method
\* maps hold upper-case names only (so two registrations that differ in the
\* case of the method are one binding), and a request with the upper-case
\* method for a path that is a registered pattern is dispatched to a binding
\* and runs its handler.
C17_MethodStoredUppercase ==
    /\ \A n \in DOMAIN routes : DOMAIN routes[n].methods \subseteq UpperCaseMethods
    /\ \A o \in CaseOptions :
           (\E k \in registered : k[1] = o.path /\ k[2] \in {o.method, toUpperCase(o.method)})
               => /\ toUpperCase(o.method) \in UpperCaseMethods
                  /\ MethodObj(toUpperCase(o.method), o.path) # NoBinding
                  /\ (/\ req.pc = "done"
                      /\ req.path = o.path
                      /\ req.method = toUpperCase(o.method))
                         => /\ req.binding = MethodObj(req.method, req.path)
                            /\ req.handler = "returned"

\* C17: POST /a/five has run the handler of a route that was registered
\* under 'post' or 'Post'.
C17_Witness ==
    /\ RegisteredPatterns = {<<"a", "five">>}
    /\ req.pc = "done"
    /\ req.method = "POST"
    /\ req.path = <<"a", "five">>
    /\ req.handler = "returned"
    /\ req.binding.handler = "h2"

\* C18, as stated: once a request (method, path) is dispatched to a handler,
\* it still is after any registration that returns, and never becomes a 404.
C18_DispatchNeverLost ==
    [][\A o \in TreeOptions :
          (RouteCall(o) /\ Returns(o)) =>
              \A m \in UpperCaseMethods, p \in TreeReqPaths :
                  MethodObj(m, p) # NoBinding => MethodObjNext(m, p) # NoBinding]_vars

\* C18, amended: a registration that returns removes no tree node, no route
\* record and no method binding, and leaves the pattern of every record as it
\* is; a request that was dispatched to a handler still is dispatched to one,
\* unless the registration created a tree node and lookup, static child
\* first, now takes the path another way than before.
C18_RoutesNeverRemoved ==
    [][\A o \in TreeOptions :
          (RouteCall(o) /\ Returns(o)) =>
              /\ nodes \subseteq nodes'
              /\ DOMAIN routes \subseteq DOMAIN routes'
              /\ \A n \in DOMAIN routes :
                     /\ routes'[n].path = routes[n].path
                     /\ DOMAIN routes[n].methods \subseteq DOMAIN routes'[n].methods
              /\ \A m \in UpperCaseMethods, p \in TreeReqPaths :
                     (MethodObj(m, p) # NoBinding /\ MethodObjNext(m, p) = NoBinding)
                         => /\ nodes' # nodes
                            /\ LookupIn(nodes', paramName', routes', Trim(p)).node
                                   # lookup(p).node]_vars

\* C18: the route of /:id is in the table with its GET binding, and so is the
\* route of /a/*, registered after it; GET /five is dispatched, GET /a is not
\* any more: lookup takes the static node a, which has no route.
C18_Witness ==
    /\ <<ParamKey>> \in DOMAIN routes
    /\ <<"a", WildKey>> \in DOMAIN routes
    /\ <<"a">> \notin DOMAIN routes
    /\ MethodObj("GET", <<"five">>).handler = "h1"
    /\ MethodObj("GET", <<"a">>) = NoBinding
    /\ ~lookup(<<"a">>).found
    /\ SomeBranchMatches(<<"a">>)

\* C19: an execution of handle ends in exactly one of three ways: it returns
\* the handler's result, it sends a 500, or it throws the 404. In it the
\* before hook is called at most once and the handler at most once, and
\* neither is called when it ends with the 404, which is when no route matches
\* the path or the request has no method.
C19_ThreeOutcomes ==
    /\ Len(req.hookSaw) <= 1
    /\ Len(req.handlerSaw) <= 1
    /\ req.pc = "done" =>
           /\ req.outcome \in {"returned", "sent", "threwNotFound"}
           /\ req.outcome = "returned" => req.handler \in {"returned", "resolved"}
           /\ req.outcome = "sent" => req.status = InternalError
           /\ req.outcome = "threwNotFound" <=> (~req.found \/ req.method = Undefined)
           /\ req.outcome = "threwNotFound" =>
                  /\ req.status = RouteNotFound
                  /\ req.hookSaw = <<>> /\ req.hook = "notRun"
                  /\ req.handlerSaw = <<>> /\ req.handler = "notRun"

\* Every execution in flight that reached its callables has on its request
\* the parameters and the query parameters of its own path and query, and its
\* before hook and its handler were handed those.
OwnContextKept ==
    \A r \in InFlight :
        (r.hook # "notRun" \/ r.handler # "notRun")
            => /\ Context(r) = OwnContext(r)
               /\ \A i \in 1..Len(r.hookSaw) : r.hookSaw[i] = OwnContext(r)
               /\ \A i \in 1..Len(r.handlerSaw) : r.handlerSaw[i] = OwnContext(r)

\* C20: with several executions of handle in flight, in any interleaving, no
\* step of handle adds, removes or changes a route or a method binding, and
\* after every step each execution in flight has, and its callables were
\* handed, the parameters and query parameters of its own request, not those
\* of another one.
C20_ConcurrentHandleIsolated ==
    [][/\ HandleStep => UNCHANGED tableVars
       /\ OwnContextKept']_vars

\* C20: GET /a/a is suspended at its await while GET /a/five?x=1 runs and
\* waits for its handler too; each handler was handed its own request's
\* parameters and query parameters.
C20_Witness ==
    /\ Len(parked) = 1
    /\ parked[1].path = <<"a", "a">>
    /\ parked[1].query = NoQuery
    /\ parked[1].handler = "pending"
    /\ parked[1].handlerSaw = <<[params |-> {<<"id", "a">>}, searchParams |-> <<{}>>]>>
    /\ req.path = <<"a", "five">>
    /\ req.query = "?x=1"
    /\ req.handler = "pending"
    /\ req.handlerSaw = <<[params |-> {<<"id", "five">>}, searchParams |-> <<{<<"x", "1">>}>>]>>

====
